---------------------------- MODULE Spec2Model ----------------------------
(***************************************************************************)
(* docker-command (src/src/lib.rs): a Launcher holds a base command and    *)
(* turns option structures into the argv of a container-engine call.       *)
(*                                                                         *)
(* Representation.  A token (String, OsString, PathBuf) is a TLA+ string   *)
(* and pushing onto it is \o.  Text that the code takes apart (the value   *)
(* of PATH, the standard output of `groups`) is a sequence of one-         *)
(* character strings.  Option<T> is [some |-> FALSE] or                    *)
(* [some |-> TRUE, v |-> x].  A command_run::Command is                    *)
(* [program, args]; its argv is the program followed by args.              *)
(***************************************************************************)
EXTENDS Integers, Sequences

VARIABLES
    launcher,   \* Option<Launcher>: the launcher the caller holds
    base0,      \* Option<Command>: the base command `launcher` was constructed with
    calls,      \* the number of commands `launcher` has produced
    op,         \* the operation that returned last ("none": the caller is between calls)
    arg,        \* the input of that operation
    ret         \* the value it returned

vars == <<launcher, base0, calls, op, arg, ret>>

-----------------------------------------------------------------------------
(* Bounds *)

\* longest list given in an option structure (env, publish, volumes, args,
\* build_args, containers, volume options)
MaxList == 2

\* most components in the value of PATH
MaxDirs == 2

\* most commands asked of one launcher
MaxCalls == 2

-----------------------------------------------------------------------------
(* Option<T> *)

None == [some |-> FALSE]

Some(x) == [some |-> TRUE, v |-> x]

Opt(S) == {None} \cup {Some(x) : x \in S}

\* all sequences over S of length 0..n
SeqsUpTo(S, n) == UNION {[1..k -> S] : k \in 0..n}

-----------------------------------------------------------------------------
(* Text *)

RECURSIVE Concat(_)
\* the string spelled by a sequence of one-character strings
Concat(cs) == IF cs = <<>> THEN "" ELSE Head(cs) \o Concat(Tail(cs))

Digits == <<"0", "1", "2", "3", "4", "5", "6", "7", "8", "9">>

RECURSIVE to_string(_)
\* Display of an unsigned integer (u16, u32): decimal, no sign, no padding
to_string(n) ==
    IF n < 10 THEN Digits[n + 1]
    ELSE to_string(n \div 10) \o Digits[(n % 10) + 1]

-----------------------------------------------------------------------------
(* command_run::Command, as the library uses it *)

\* Command::new(program)
Command_new(program) == [program |-> program, args |-> <<>>]

\* Command::with_args(program, args)
Command_with_args(program, args) == [program |-> program, args |-> args]

\* cmd.add_arg(a)
add_arg(cmd, a) == [cmd EXCEPT !.args = Append(@, a)]

\* cmd.add_arg_pair(a, b)
add_arg_pair(cmd, a, b) == [cmd EXCEPT !.args = Append(Append(@, a), b)]

\* cmd.add_args(as)
add_args(cmd, as) == [cmd EXCEPT !.args = @ \o as]

\* the argument vector a Command is spawned with (what command_line_lossy prints)
Argv(cmd) == <<cmd.program>> \o cmd.args

-----------------------------------------------------------------------------
(* Value types *)

\* PortRange(start..=end): the public tuple constructor over RangeInclusive<u16>
PortRange(start, end) == [start |-> start, end |-> end]

\* From<u16> gone wrong: the range runs from port 0 up to the port
PortRange_from_zero(port) == PortRange(0, port)

\* impl From<u16> for PortRange
PortRange_from(port) == PortRange(port, port)

\* impl Default for PortRange
PortRange_default == PortRange(0, 0)

\* impl Display for PortRange
PortRange_fmt(r) ==
    IF r.start = r.end
    THEN to_string(r.start)
    ELSE to_string(r.start) \o "-" \o to_string(r.end)

\* PublishPorts::arg gone wrong: without a host range the ip is followed by a
\* single colon
PublishPorts_arg_one_colon(p) ==
    CASE p.ip.some /\ p.host.some ->
            p.ip.v \o ":" \o PortRange_fmt(p.host.v) \o ":" \o PortRange_fmt(p.container)
      [] p.ip.some /\ ~p.host.some ->
            p.ip.v \o ":" \o PortRange_fmt(p.container)
      [] ~p.ip.some /\ p.host.some ->
            PortRange_fmt(p.host.v) \o ":" \o PortRange_fmt(p.container)
      [] OTHER ->
            PortRange_fmt(p.container)

\* PublishPorts::arg
PublishPorts_arg(p) ==
    CASE p.ip.some /\ p.host.some ->
            p.ip.v \o ":" \o PortRange_fmt(p.host.v) \o ":" \o PortRange_fmt(p.container)
      [] p.ip.some /\ ~p.host.some ->
            p.ip.v \o "::" \o PortRange_fmt(p.container)
      [] ~p.ip.some /\ p.host.some ->
            PortRange_fmt(p.host.v) \o ":" \o PortRange_fmt(p.container)
      [] OTHER ->
            PortRange_fmt(p.container)

\* NameOrId::Name(name)
Name(name) == [tag |-> "Name", name |-> name]

\* NameOrId::Id(id)
Id(id) == [tag |-> "Id", id |-> id]

\* impl Display for NameOrId
NameOrId_fmt(x) == IF x.tag = "Name" THEN x.name ELSE to_string(x.id)

\* UserAndGroup::arg gone wrong: the group is pushed without the colon
UserAndGroup_arg_no_colon(u) ==
    LET out == NameOrId_fmt(u.user)
    IN  IF u.group.some THEN out \o NameOrId_fmt(u.group.v) ELSE out

\* UserAndGroup::arg
UserAndGroup_arg(u) ==
    LET out == NameOrId_fmt(u.user)
    IN  IF u.group.some THEN (out \o ":") \o NameOrId_fmt(u.group.v) ELSE out

RECURSIVE push_options(_, _)
\* the loop of Volume::arg: for opt in &self.options { out.push(","); out.push(opt) }
push_options(out, options) ==
    IF options = <<>> THEN out
    ELSE push_options((out \o ",") \o Head(options), Tail(options))

\* Volume::arg gone wrong: the two access modes are exchanged
Volume_arg_modes_exchanged(vol) ==
    LET out1 == (("" \o vol.src) \o ":") \o vol.dst
        out2 == IF vol.read_write THEN out1 \o ":ro" ELSE out1 \o ":rw"
    IN  push_options(out2, vol.options)

\* Volume::arg
Volume_arg(vol) ==
    LET out1 == (("" \o vol.src) \o ":") \o vol.dst
        out2 == IF vol.read_write THEN out1 \o ":rw" ELSE out1 \o ":ro"
    IN  push_options(out2, vol.options)

-----------------------------------------------------------------------------
(* Launcher *)

\* Launcher::new
Launcher_new(base_command) == [base_command |-> base_command]

\* impl From<BaseCommand> for Launcher
Launcher_from(bc) ==
    LET docker == "docker"
        podman == "podman"
    IN  [base_command |->
            CASE bc = "Docker" -> Command_new(docker)
              [] bc = "SudoDocker" -> Command_with_args("sudo", <<docker>>)
              [] bc = "Podman" -> Command_new(podman)]

\* Launcher::base_command
base_command(self) == self.base_command

RECURSIVE add_arg_pairs_reversed(_, _, _)
\* add_arg_pairs gone wrong: the values are taken last to first
add_arg_pairs_reversed(cmd, flag, values) ==
    IF values = <<>> THEN cmd
    ELSE add_arg_pair(add_arg_pairs_reversed(cmd, flag, Tail(values)), flag, Head(values))

RECURSIVE add_arg_pairs(_, _, _)
\* a loop `for v in values { cmd.add_arg_pair(flag, v) }`
add_arg_pairs(cmd, flag, values) ==
    IF values = <<>> THEN cmd
    ELSE add_arg_pairs(add_arg_pair(cmd, flag, Head(values)), flag, Tail(values))

\* format!("{}={}", key, value) of one build_args entry
build_arg(kv) == (kv[1] \o "=") \o kv[2]

\* Launcher::build
build(self, opt) ==
    LET c0 == self.base_command
        c1 == add_arg(c0, "build")
        c2 == add_arg_pairs(c1, "--build-arg",
                            [i \in DOMAIN opt.build_args |-> build_arg(opt.build_args[i])])
        c3 == IF opt.dockerfile.some THEN add_arg_pair(c2, "--file", opt.dockerfile.v) ELSE c2
        c4 == IF opt.iidfile.some THEN add_arg_pair(c3, "--iidfile", opt.iidfile.v) ELSE c3
        c5 == IF opt.no_cache THEN add_arg(c4, "--no-cache") ELSE c4
        c6 == IF opt.pull THEN add_arg(c5, "--pull") ELSE c5
        c7 == IF opt.quiet THEN add_arg(c6, "--quiet") ELSE c6
        c8 == IF opt.tag.some THEN add_arg_pair(c7, "--tag", opt.tag.v) ELSE c7
    IN  add_arg(c8, opt.context)

\* create_network gone wrong: the verb of remove_network
create_network_rm(self, opt) ==
    LET c0 == self.base_command
        c1 == add_arg_pair(c0, "network", "rm")
    IN  add_arg(c1, opt.name)

\* Launcher::create_network
create_network(self, opt) ==
    LET c0 == self.base_command
        c1 == add_arg_pair(c0, "network", "create")
    IN  add_arg(c1, opt.name)

\* Launcher::remove_network
remove_network(self, name) ==
    LET c0 == self.base_command
        c1 == add_arg_pair(c0, "network", "rm")
    IN  add_arg(c1, name)

\* the OsString built from one env entry: push(key), push("="), push(value)
env_arg(kv) == (("" \o kv[1]) \o "=") \o kv[2]

\* run gone wrong: the args are added before the command
run_args_first(self, opt) ==
    LET c0  == self.base_command
        c1  == add_arg(c0, "run")
        c2  == IF opt.detach THEN add_arg(c1, "--detach") ELSE c1
        c3  == add_arg_pairs(c2, "--env", [i \in DOMAIN opt.env |-> env_arg(opt.env[i])])
        c4  == IF opt.init THEN add_arg(c3, "--init") ELSE c3
        c5  == IF opt.interactive THEN add_arg(c4, "--interactive") ELSE c4
        c6  == IF opt.name.some THEN add_arg_pair(c5, "--name", opt.name.v) ELSE c5
        c7  == IF opt.network.some THEN add_arg_pair(c6, "--network", opt.network.v) ELSE c6
        c8  == add_arg_pairs(c7, "--publish",
                             [i \in DOMAIN opt.publish |-> PublishPorts_arg(opt.publish[i])])
        c9  == IF opt.read_only THEN add_arg(c8, "--read-only") ELSE c8
        c10 == IF opt.remove THEN add_arg(c9, "--rm") ELSE c9
        c11 == IF opt.tty THEN add_arg(c10, "--tty") ELSE c10
        c12 == IF opt.user.some
               THEN add_arg_pair(c11, "--user", UserAndGroup_arg(opt.user.v)) ELSE c11
        c13 == add_arg_pairs(c12, "--volume",
                             [i \in DOMAIN opt.volumes |-> Volume_arg(opt.volumes[i])])
        c14 == add_arg(c13, opt.image)
        c15 == add_args(c14, opt.args)
    IN  IF opt.command.some THEN add_arg(c15, opt.command.v) ELSE c15

\* Launcher::run
run(self, opt) ==
    LET c0  == self.base_command
        c1  == add_arg(c0, "run")
        c2  == IF opt.detach THEN add_arg(c1, "--detach") ELSE c1
        c3  == add_arg_pairs(c2, "--env", [i \in DOMAIN opt.env |-> env_arg(opt.env[i])])
        c4  == IF opt.init THEN add_arg(c3, "--init") ELSE c3
        c5  == IF opt.interactive THEN add_arg(c4, "--interactive") ELSE c4
        c6  == IF opt.name.some THEN add_arg_pair(c5, "--name", opt.name.v) ELSE c5
        c7  == IF opt.network.some THEN add_arg_pair(c6, "--network", opt.network.v) ELSE c6
        c8  == add_arg_pairs(c7, "--publish",
                             [i \in DOMAIN opt.publish |-> PublishPorts_arg(opt.publish[i])])
        c9  == IF opt.read_only THEN add_arg(c8, "--read-only") ELSE c8
        c10 == IF opt.remove THEN add_arg(c9, "--rm") ELSE c9
        c11 == IF opt.tty THEN add_arg(c10, "--tty") ELSE c10
        c12 == IF opt.user.some
               THEN add_arg_pair(c11, "--user", UserAndGroup_arg(opt.user.v)) ELSE c11
        c13 == add_arg_pairs(c12, "--volume",
                             [i \in DOMAIN opt.volumes |-> Volume_arg(opt.volumes[i])])
        c14 == add_arg(c13, opt.image)
        c15 == IF opt.command.some THEN add_arg(c14, opt.command.v) ELSE c14
    IN  add_args(c15, opt.args)

\* stop gone wrong: the --time pair is added after the containers
stop_time_last(self, opt) ==
    LET c0 == self.base_command
        c1 == add_arg(c0, "stop")
        c2 == add_args(c1, opt.containers)
    IN  IF opt.time.some THEN add_arg_pair(c2, "--time", to_string(opt.time.v)) ELSE c2

\* Launcher::stop
stop(self, opt) ==
    LET c0 == self.base_command
        c1 == add_arg(c0, "stop")
        c2 == IF opt.time.some THEN add_arg_pair(c1, "--time", to_string(opt.time.v)) ELSE c1
    IN  add_args(c2, opt.containers)

\* the receiver gone wrong: the call adds its arguments to the launcher's own
\* base command instead of a clone
receiver_in_place(self, cmd) == [self EXCEPT !.base_command = cmd]

\* the receiver of build, create_network, remove_network, run and stop is
\* `&self`: the call works on a clone of base_command and leaves the launcher
\* as it was, whatever command `cmd` it built
receiver(self, cmd) == self

-----------------------------------------------------------------------------
(* Auto-detection.  The host `env` read by Launcher::auto is                *)
(*   path   : Option<text>, the value of the PATH variable;                 *)
(*   files  : the paths that exist in the file system;                      *)
(*   groups : what running `groups` does, [kind, stdout], kind one of       *)
(*            "spawn_error" (the binary cannot be started), "io_error"      *)
(*            (waiting for it or reading its output fails), "exit_nonzero"  *)
(*            and "ok".                                                     *)

\* env::var_os("PATH")
var_os_PATH(env) == env.path

RECURSIVE split_at(_, _, _)
\* the pieces of text `cs` between the characters of `seps`, empty pieces
\* included (`piece` is the piece being read)
split_at(cs, seps, piece) ==
    IF cs = <<>> THEN <<Concat(piece)>>
    ELSE IF Head(cs) \in seps
         THEN <<Concat(piece)>> \o split_at(Tail(cs), seps, <<>>)
         ELSE split_at(Tail(cs), seps, Append(piece, Head(cs)))

\* env::split_paths on Unix: the components between ':' (an empty value has
\* one empty component)
split_paths(paths) == split_at(paths, {":"}, <<>>)

\* path.join(exe_name) for a relative exe_name and a path without a trailing
\* separator: joining onto the empty path gives exe_name itself
path_join(path, exe_name) ==
    IF path = "" THEN exe_name ELSE (path \o "/") \o exe_name

\* Path::exists
exists(env, path) == path \in env.files

\* is_exe_in_path gone wrong: an unset PATH falls back to the current directory
is_exe_in_path_default_cwd(env, exe_name) ==
    IF var_os_PATH(env).some
    THEN LET dirs == split_paths(var_os_PATH(env).v)
         IN  \E i \in DOMAIN dirs : exists(env, path_join(dirs[i], exe_name))
    ELSE exists(env, exe_name)

\* is_exe_in_path
is_exe_in_path(env, exe_name) ==
    IF var_os_PATH(env).some
    THEN LET dirs == split_paths(var_os_PATH(env).v)
         IN  \E i \in DOMAIN dirs : exists(env, path_join(dirs[i], exe_name))
    ELSE FALSE

Whitespace == {" ", "\n", "\t"}

\* str::split_whitespace: the non-empty pieces between whitespace
split_whitespace(stdout) ==
    SelectSeq(split_at(stdout, Whitespace, <<>>), LAMBDA w : w # "")

\* cmd.run() gone wrong: the exit status is not checked
groups_run_unchecked(env) ==
    IF env.groups.kind \in {"ok", "exit_nonzero"}
    THEN [ok |-> TRUE, stdout |-> env.groups.stdout]
    ELSE [ok |-> FALSE]

\* cmd.run() on `groups` with capture: Ok(output) only when the process was
\* started, its output was read and it exited with status 0
groups_run(env) ==
    IF env.groups.kind = "ok" THEN [ok |-> TRUE, stdout |-> env.groups.stdout]
    ELSE [ok |-> FALSE]

\* is_user_in_group
is_user_in_group(env, target_group) ==
    LET output == groups_run(env)
    IN  IF output.ok
        THEN LET groups == split_whitespace(output.stdout)
             IN  \E i \in DOMAIN groups : groups[i] = target_group
        ELSE FALSE

\* auto gone wrong: docker is looked for before podman
auto_docker_first(env) ==
    LET docker == "docker"
        podman == "podman"
    IN  IF is_exe_in_path(env, docker)
        THEN Some(IF is_user_in_group(env, "docker")
                  THEN Launcher_from("Docker")
                  ELSE Launcher_from("SudoDocker"))
        ELSE IF is_exe_in_path(env, podman)
             THEN Some(Launcher_from("Podman"))
             ELSE None

\* Launcher::auto
auto(env) ==
    LET docker == "docker"
        podman == "podman"
    IN  IF is_exe_in_path(env, podman)
        THEN Some(Launcher_from("Podman"))
        ELSE IF is_exe_in_path(env, docker)
             THEN Some(IF is_user_in_group(env, "docker")
                       THEN Launcher_from("Docker")
                       ELSE Launcher_from("SudoDocker"))
             ELSE None

-----------------------------------------------------------------------------
(* Inputs *)

\* BaseCommand
BaseCommands == {"Docker", "SudoDocker", "Podman"}

\* base commands given to Launcher::new
CustomCommands == {Command_with_args("sudo", <<"-E", "podman">>)}

BuildOpts ==
    [build_args : SeqsUpTo({<<"barg1", "bval1">>, <<"barg2", "a=b">>}, MaxList),
     context    : {"/myContext", "."},
     dockerfile : Opt({"/myContext/myDockerfile"}),
     iidfile    : Opt({"/myIidfile"}),
     no_cache   : BOOLEAN,
     pull       : BOOLEAN,
     quiet      : BOOLEAN,
     tag        : Opt({"myTag"})]

NetworkNames == {"myNetwork", "net-2"}

CreateNetworkOpts == [name : NetworkNames]

StopOpts ==
    [containers : SeqsUpTo({"abc", "def"}, MaxList),
     time       : Opt({0, 10, 123, 65536, 2147483647})]

\* u16 port numbers given to the PortRange constructors
Ports == {0, 1, 123, 567, 65535}

PortRanges ==
    {PortRange_default, PortRange_from(5678), PortRange_from(987),
     PortRange(8000, 8010), PortRange(65535, 1)}

PublishPortsAll ==
    [container : PortRanges, host : Opt(PortRanges), ip : Opt({"1.2.3.4"})]

VolumesAll ==
    [src        : {"/mySrc", "myVol"},
     dst        : {"/myDst"},
     read_write : BOOLEAN,
     options    : SeqsUpTo({"cached", "z"}, MaxList)]

NameOrIds == {Name("myUser"), Name("myGroup"), Id(1000), Id(0)}

UserAndGroups == [user : NameOrIds, group : Opt(NameOrIds)]

\* the elements the lists of a RunOpt are made of
EnvEntries == {<<"key1", "val1">>, <<"key2", "val2">>}

PublishA ==
    [container |-> PortRange_from(5678), host |-> Some(PortRange_from(987)),
     ip |-> Some("1.2.3.4")]

PublishB == [container |-> PortRange(8000, 8010), host |-> None, ip |-> None]

RunPublish == {PublishA, PublishB}

VolumeA == [src |-> "/mySrc", dst |-> "/myDst", read_write |-> TRUE, options |-> <<>>]

VolumeB ==
    [src |-> "/mySrc", dst |-> "/myDst", read_write |-> FALSE,
     options |-> <<"cached", "z">>]

RunVolumes == {VolumeA, VolumeB}

RunArgs == {"arg1", "arg2"}

RunUsers ==
    {[user |-> Name("myUser"), group |-> Some(Name("myGroup"))],
     [user |-> Id(1000), group |-> None]}

\* the scalar fields of a RunOpt: six flags and four optional fields, in
\* every combination
RunScalars ==
    [image       : {"myImage"},
     detach      : BOOLEAN,
     init        : BOOLEAN,
     interactive : BOOLEAN,
     read_only   : BOOLEAN,
     remove      : BOOLEAN,
     tty         : BOOLEAN,
     name        : Opt({"myName"}),
     network     : Opt({"myNetwork"}),
     user        : Opt(RunUsers),
     command     : Opt({"myCmd"})]

\* the four lists of a RunOpt, all empty
NoLists == [env |-> <<>>, publish |-> <<>>, volumes |-> <<>>, args |-> <<>>]

\* the four lists of a RunOpt, of two different elements each
TwoLists ==
    [env |-> <<<<"key1", "val1">>, <<"key2", "val2">>>>,
     publish |-> <<PublishA, PublishB>>,
     volumes |-> <<VolumeA, VolumeB>>,
     args |-> <<"arg1", "arg2">>]

\* the scalar fields of a RunOpt all at their defaults, or all set
RunScalarsDefault ==
    [image |-> "myImage", detach |-> FALSE, init |-> FALSE, interactive |-> FALSE,
     read_only |-> FALSE, remove |-> FALSE, tty |-> FALSE, name |-> None,
     network |-> None, user |-> None, command |-> None]

RunScalarsSet ==
    [image |-> "myImage", detach |-> TRUE, init |-> TRUE, interactive |-> TRUE,
     read_only |-> TRUE, remove |-> TRUE, tty |-> TRUE, name |-> Some("myName"),
     network |-> Some("myNetwork"),
     user |-> Some([user |-> Name("myUser"), group |-> Some(Name("myGroup"))]),
     command |-> Some("myCmd")]

\* a RunOpt from its scalar fields `s` and its four lists
RunOptOf(s, env, publish, volumes, args) ==
    [image |-> s.image, detach |-> s.detach, init |-> s.init,
     interactive |-> s.interactive, read_only |-> s.read_only, remove |-> s.remove,
     tty |-> s.tty, name |-> s.name, network |-> s.network, user |-> s.user,
     command |-> s.command, env |-> env, publish |-> publish, volumes |-> volumes,
     args |-> args]

\* RunOpt values whose scalar fields take every combination, with the four
\* lists all empty or all of two elements
RunOptsScalars ==
    {RunOptOf(s, l.env, l.publish, l.volumes, l.args) :
        s \in RunScalars, l \in {NoLists, TwoLists}}

\* RunOpt values whose lists take every value up to MaxList elements, two
\* lists at a time, with the scalar fields all default or all set
RunOptsLists ==
    {RunOptOf(s, e, p, v, a) :
        s \in {RunScalarsDefault, RunScalarsSet},
        e \in SeqsUpTo(EnvEntries, MaxList),
        a \in SeqsUpTo(RunArgs, MaxList),
        p \in {<<>>} \cup [1..1 -> RunPublish],
        v \in {<<>>} \cup [1..1 -> RunVolumes]}
    \cup
    {RunOptOf(s, e, p, v, a) :
        s \in {RunScalarsDefault, RunScalarsSet},
        e \in {<<>>} \cup [1..1 -> EnvEntries],
        a \in {<<>>} \cup [1..1 -> RunArgs],
        p \in SeqsUpTo(RunPublish, MaxList),
        v \in SeqsUpTo(RunVolumes, MaxList)}

RunOpts == RunOptsScalars \cup RunOptsLists

\* the directories PATH may list, as text (the empty one is the current
\* directory)
Dirs == {<<"/", "a">>, <<"/", "b">>, <<>>}

RECURSIVE join_colon(_)
\* the PATH value listing the directories `ds`
join_colon(ds) ==
    IF Len(ds) = 1 THEN ds[1] ELSE (ds[1] \o <<":">>) \o join_colon(Tail(ds))

PathValues ==
    {None} \cup {Some(join_colon(ds)) : ds \in SeqsUpTo(Dirs, MaxDirs) \ {<<>>}}

\* entries that may exist: podman and docker in /a, in /b and in the
\* current directory
Files == {"/a/podman", "/a/docker", "/b/podman", "/b/docker", "podman", "docker"}

GroupsStdouts ==
    {<<>>,
     <<"d", "o", "c", "k", "e", "r", "\n">>,
     <<"a", "d", "m", " ", "d", "o", "c", "k", "e", "r", "\n">>,
     <<"d", "o", "c", "k", "e", "r", "\t", "a", "d", "m">>,
     <<"a", "d", "m", " ", "s", "u", "d", "o", "\n">>,
     <<"d", "o", "c", "k", "e", "r", "x", " ", "x", "d", "o", "c", "k", "e", "r", "\n">>}

GroupsOutcomes ==
    [kind : {"ok"}, stdout : GroupsStdouts]
    \cup [kind : {"exit_nonzero"},
          stdout : {<<>>, <<"d", "o", "c", "k", "e", "r", "\n">>}]
    \cup [kind : {"spawn_error", "io_error"}, stdout : {<<>>}]

Envs == [path : PathValues, files : SUBSET Files, groups : GroupsOutcomes]

-----------------------------------------------------------------------------
(* The caller: it constructs a launcher, asks it for commands one at a     *)
(* time and consumes each returned value before the next call.             *)

Init ==
    /\ launcher = None
    /\ base0 = None
    /\ calls = 0
    /\ op = "none"
    /\ arg = None
    /\ ret = None

\* Launcher::new(cmd)
New(cmd) ==
    /\ op = "none"
    /\ launcher' = Some(Launcher_new(cmd))
    /\ base0' = Some(cmd)
    /\ calls' = 0
    /\ op' = "new"
    /\ arg' = cmd
    /\ ret' = Launcher_new(cmd)

\* Launcher::from(bc)
From(bc) ==
    /\ op = "none"
    /\ launcher' = Some(Launcher_from(bc))
    /\ base0' = Some(base_command(Launcher_from(bc)))
    /\ calls' = 0
    /\ op' = "from"
    /\ arg' = bc
    /\ ret' = Launcher_from(bc)

\* Launcher::auto() on a host `env`; the caller keeps what it returns
Auto(env) ==
    /\ op = "none"
    /\ launcher' = auto(env)
    /\ base0' = IF auto(env).some THEN Some(base_command(auto(env).v)) ELSE None
    /\ calls' = 0
    /\ op' = "auto"
    /\ arg' = env
    /\ ret' = auto(env)

\* a call launcher.name(input) that returns the command `cmd`
Call(name, input, cmd) ==
    /\ op = "none"
    /\ launcher.some
    /\ calls < MaxCalls
    /\ launcher' = Some(receiver(launcher.v, cmd))
    /\ calls' = calls + 1
    /\ op' = name
    /\ arg' = input
    /\ ret' = cmd
    /\ UNCHANGED base0

Build(opt) == Call("build", opt, build(launcher.v, opt))

CreateNetwork(opt) == Call("create_network", opt, create_network(launcher.v, opt))

RemoveNetwork(name) == Call("remove_network", name, remove_network(launcher.v, name))

Run(opt) == Call("run", opt, run(launcher.v, opt))

Stop(opt) == Call("stop", opt, stop(launcher.v, opt))

\* a call of a formatting method `name` of the value `input`
Format(name, input, text) ==
    /\ op = "none"
    /\ op' = name
    /\ arg' = input
    /\ ret' = text
    /\ UNCHANGED <<launcher, base0, calls>>

\* PublishPorts::arg
PublishArg(p) == Format("publish_arg", p, PublishPorts_arg(p))

\* Volume::arg
VolumeArg(vol) == Format("volume_arg", vol, Volume_arg(vol))

\* UserAndGroup::arg
UserArg(u) == Format("user_arg", u, UserAndGroup_arg(u))

\* PortRange(start..=end)
PortRangeNew(start, end) == Format("port_range", <<start, end>>, PortRange(start, end))

\* PortRange::from(port)
PortRangeFrom(port) == Format("port_range_from", port, PortRange_from(port))

\* PortRange::default()
PortRangeDefault == Format("port_range_default", None, PortRange_default)

\* the caller consumes the returned value
Consume ==
    /\ op # "none"
    /\ op' = "none"
    /\ arg' = None
    /\ ret' = None
    /\ UNCHANGED <<launcher, base0, calls>>

\* between calls (op = "none") the caller starts any operation; after one
\* it consumes the returned value
Next ==
    \/ op = "none" /\ \E cmd \in CustomCommands : New(cmd)
    \/ op = "none" /\ \E bc \in BaseCommands : From(bc)
    \/ op = "none" /\ \E env \in Envs : Auto(env)
    \/ op = "none" /\ \E opt \in BuildOpts : Build(opt)
    \/ op = "none" /\ \E opt \in CreateNetworkOpts : CreateNetwork(opt)
    \/ op = "none" /\ \E name \in NetworkNames : RemoveNetwork(name)
    \/ op = "none" /\ \E opt \in RunOpts : Run(opt)
    \/ op = "none" /\ \E opt \in StopOpts : Stop(opt)
    \/ op = "none" /\ \E p \in PublishPortsAll : PublishArg(p)
    \/ op = "none" /\ \E vol \in VolumesAll : VolumeArg(vol)
    \/ op = "none" /\ \E u \in UserAndGroups : UserArg(u)
    \/ op = "none" /\ \E start \in Ports : \E end \in Ports : PortRangeNew(start, end)
    \/ op = "none" /\ \E port \in Ports : PortRangeFrom(port)
    \/ op = "none" /\ PortRangeDefault
    \/ Consume

Spec == Init /\ [][Next]_vars

-----------------------------------------------------------------------------
(* What the claims say, written from their wording *)

\* one token iff the flag is set
Flag(b, token) == IF b THEN <<token>> ELSE <<>>

\* a flag and its value iff the value is present
Pair(token, o) == IF o.some THEN <<token, o.v>> ELSE <<>>

\* one `token value` pair per element of `values`, in list order
Pairs(token, values) ==
    [i \in 1..(2 * Len(values)) |-> IF i % 2 = 1 THEN token ELSE values[i \div 2]]

\* "key=value"
KeyValue(kv) == kv[1] \o "=" \o kv[2]

\* the decimal numerals of the numbers the inputs hold
Decimal(n) ==
    CASE n = 0 -> "0"
      [] n = 1 -> "1"
      [] n = 10 -> "10"
      [] n = 123 -> "123"
      [] n = 987 -> "987"
      [] n = 1000 -> "1000"
      [] n = 5678 -> "5678"
      [] n = 8000 -> "8000"
      [] n = 8010 -> "8010"
      [] n = 65535 -> "65535"
      [] n = 65536 -> "65536"
      [] n = 2147483647 -> "2147483647"

\* the tokens of the launcher's base command
BaseTokens == <<base_command(launcher.v).program>> \o base_command(launcher.v).args

\* the argv of the returned command
RetTokens == <<ret.program>> \o ret.args

\* the option segment of `run`, in the claimed order
RunFlags(o) ==
    Flag(o.detach, "--detach")
    \o Pairs("--env", [i \in DOMAIN o.env |-> KeyValue(o.env[i])])
    \o Flag(o.init, "--init")
    \o Flag(o.interactive, "--interactive")
    \o Pair("--name", o.name)
    \o Pair("--network", o.network)
    \o Pairs("--publish", [i \in DOMAIN o.publish |-> PublishPorts_arg(o.publish[i])])
    \o Flag(o.read_only, "--read-only")
    \o Flag(o.remove, "--rm")
    \o Flag(o.tty, "--tty")
    \o (IF o.user.some THEN <<"--user", UserAndGroup_arg(o.user.v)>> ELSE <<>>)
    \o Pairs("--volume", [i \in DOMAIN o.volumes |-> Volume_arg(o.volumes[i])])

\* C1: run returns the base tokens, "run", the options in the fixed order
\* --detach, --env pairs, --init, --interactive, --name, --network, --publish
\* pairs, --read-only, --rm, --tty, --user, --volume pairs, then the image,
\* the command iff set, and the args in list order; with no command the args
\* directly follow the image.
C1_RunArgv ==
    op = "run" =>
        /\ RetTokens = BaseTokens \o <<"run">> \o RunFlags(arg) \o <<arg.image>>
                       \o (IF arg.command.some THEN <<arg.command.v>> ELSE <<>>)
                       \o arg.args
        /\ ~arg.command.some =>
              /\ RetTokens[Len(RetTokens) - Len(arg.args)] = arg.image
              /\ SubSeq(RetTokens, Len(RetTokens) - Len(arg.args) + 1, Len(RetTokens))
                   = arg.args

\* C1 witness: the run of tests/docker.rs test_run (with two publish entries)
\* on the Docker preset
C1_Witness ==
    /\ op = "run"
    /\ arg = RunOptOf(RunScalarsSet, TwoLists.env, TwoLists.publish, TwoLists.volumes,
                      TwoLists.args)
    /\ RetTokens =
         <<"docker", "run", "--detach", "--env", "key1=val1", "--env", "key2=val2",
           "--init", "--interactive", "--name", "myName", "--network", "myNetwork",
           "--publish", "1.2.3.4:987:5678", "--publish", "8000-8010", "--read-only",
           "--rm", "--tty", "--user", "myUser:myGroup", "--volume", "/mySrc:/myDst:rw",
           "--volume", "/mySrc:/myDst:ro,cached,z", "myImage", "myCmd", "arg1", "arg2">>

\* C2: build returns the base tokens, "build", one --build-arg key=value pair
\* per entry in input order, then --file, --iidfile, --no-cache, --pull,
\* --quiet, --tag as set, and the context as the single last token.
C2_BuildArgv ==
    op = "build" =>
        /\ RetTokens = BaseTokens \o <<"build">>
                       \o Pairs("--build-arg",
                                [i \in DOMAIN arg.build_args |-> KeyValue(arg.build_args[i])])
                       \o Pair("--file", arg.dockerfile)
                       \o Pair("--iidfile", arg.iidfile)
                       \o Flag(arg.no_cache, "--no-cache")
                       \o Flag(arg.pull, "--pull")
                       \o Flag(arg.quiet, "--quiet")
                       \o Pair("--tag", arg.tag)
                       \o <<arg.context>>
        /\ RetTokens[Len(RetTokens)] = arg.context

\* C2 witness: the build of tests/docker.rs test_build on the Docker preset
C2_Witness ==
    /\ op = "build"
    /\ Len(arg.build_args) = 2
    /\ RetTokens =
         <<"docker", "build", "--build-arg", "barg1=bval1", "--build-arg", "barg2=a=b",
           "--file", "/myContext/myDockerfile", "--iidfile", "/myIidfile", "--no-cache",
           "--pull", "--quiet", "--tag", "myTag", "/myContext">>

\* C6: stop returns the base tokens, "stop", then "--time" and the decimal
\* seconds iff time is set, then every container in list order; an empty
\* container list leaves nothing after the optional --time pair.
C6_StopArgv ==
    op = "stop" =>
        /\ RetTokens = BaseTokens \o <<"stop">>
                       \o (IF arg.time.some THEN <<"--time", Decimal(arg.time.v)>> ELSE <<>>)
                       \o arg.containers
        /\ arg.containers = <<>> =>
              Len(RetTokens) = Len(BaseTokens) + 1 + (IF arg.time.some THEN 2 ELSE 0)

\* C6 witness: the stop of tests/docker.rs test_stop
C6_Witness ==
    /\ op = "stop"
    /\ arg = [containers |-> <<"abc", "def">>, time |-> Some(123)]
    /\ RetTokens = <<"docker", "stop", "--time", "123", "abc", "def">>

\* C10: create_network returns the base tokens, "network", "create", name and
\* remove_network the base tokens, "network", "rm", name; the name is the
\* last and only token after the verb.
C10_NetworkArgv ==
    /\ op = "create_network" =>
          RetTokens = BaseTokens \o <<"network", "create", arg.name>>
    /\ op = "remove_network" =>
          RetTokens = BaseTokens \o <<"network", "rm", arg>>

\* C10 witness: removing a network through `sudo docker`, after creating one
C10_Witness ==
    /\ op = "remove_network"
    /\ calls = 2
    /\ RetTokens = <<"sudo", "docker", "network", "rm", "myNetwork">>

\* the directories the value of PATH lists, by the way the value was put
\* together: the lists `ds` of directories whose colon-joined text it is
PathLists(env) ==
    IF env.path.some
    THEN {ds \in SeqsUpTo(Dirs, MaxDirs) \ {<<>>} : join_colon(ds) = env.path.v}
    ELSE {}

\* the entry `name` of directory `d` (the empty directory is the current one)
Entry(d, name) == IF d = <<>> THEN name ELSE Concat(d) \o "/" \o name

\* an entry called `name` exists in some directory of the search path
OnPath(env, name) ==
    \E ds \in PathLists(env) : \E i \in DOMAIN ds : Entry(ds[i], name) \in env.files

\* some whitespace-separated token of `text` is `word` (a sequence of characters)
HasToken(text, word) ==
    \E i \in 1..Len(text) :
        /\ i + Len(word) - 1 <= Len(text)
        /\ SubSeq(text, i, i + Len(word) - 1) = word
        /\ i = 1 \/ text[i - 1] \in Whitespace
        /\ i + Len(word) - 1 = Len(text) \/ text[i + Len(word)] \in Whitespace

\* the launchers of the three presets, by their tokens
IsPodman(l) == l.base_command = [program |-> "podman", args |-> <<>>]

IsDocker(l) == l.base_command = [program |-> "docker", args |-> <<>>]

IsSudoDocker(l) == l.base_command = [program |-> "sudo", args |-> <<"docker">>]

\* C3: auto selects Podman whenever an entry named "podman" exists in some
\* directory of the search path, whatever docker's presence and whatever the
\* groups probe does.
C3_PodmanFirst ==
    (op = "auto" /\ OnPath(arg, "podman")) => (ret.some /\ IsPodman(ret.v))

\* C3 witness: podman and docker both on the path and the user in the docker
\* group
C3_Witness ==
    /\ op = "auto"
    /\ OnPath(arg, "podman")
    /\ OnPath(arg, "docker")
    /\ arg.groups.kind = "ok"
    /\ HasToken(arg.groups.stdout, <<"d", "o", "c", "k", "e", "r">>)
    /\ ret.some
    /\ IsPodman(ret.v)

\* C4: with no podman but docker on the search path, auto selects Docker only
\* if the groups probe ran successfully and a whitespace-separated token of
\* its output is "docker"; in every other case it selects SudoDocker, and it
\* always returns a launcher.
C4_DockerOrSudo ==
    (op = "auto" /\ ~OnPath(arg, "podman") /\ OnPath(arg, "docker")) =>
        /\ ret.some
        /\ IF /\ arg.groups.kind = "ok"
              /\ HasToken(arg.groups.stdout, <<"d", "o", "c", "k", "e", "r">>)
           THEN IsDocker(ret.v)
           ELSE IsSudoDocker(ret.v)

\* C4 witness: `groups` prints "docker" but exits with a non-zero status, and
\* auto selects SudoDocker
C4_Witness ==
    /\ op = "auto"
    /\ ~OnPath(arg, "podman")
    /\ OnPath(arg, "docker")
    /\ arg.groups.kind = "exit_nonzero"
    /\ HasToken(arg.groups.stdout, <<"d", "o", "c", "k", "e", "r">>)
    /\ ret.some
    /\ IsSudoDocker(ret.v)

\* C5: with neither "podman" nor "docker" in any directory of the search path
\* (PATH unset included), auto returns None.
C5_NoneWhenAbsent ==
    (op = "auto" /\ ~OnPath(arg, "podman") /\ ~OnPath(arg, "docker")) =>
        (ret = None /\ launcher = None)

\* C5 witness: PATH is unset while podman and docker exist in the current
\* directory and in /a
C5_Witness ==
    /\ op = "auto"
    /\ arg.path = None
    /\ {"podman", "docker", "/a/podman", "/a/docker"} \subseteq arg.files
    /\ ret = None

\* the operations that ask the launcher for a command
CallOps == {"build", "create_network", "remove_network", "run", "stop"}

\* what a freshly constructed launcher with base command `base` returns for
\* operation `name` on `input`
FreshReturn(base, name, input) ==
    CASE name = "build" -> build(Launcher_new(base), input)
      [] name = "create_network" -> create_network(Launcher_new(base), input)
      [] name = "remove_network" -> remove_network(Launcher_new(base), input)
      [] name = "run" -> run(Launcher_new(base), input)
      [] name = "stop" -> stop(Launcher_new(base), input)

\* C7: after any sequence of calls the launcher's base command is the one it
\* was constructed with, and each call returns what the same call returns on
\* a freshly constructed launcher with that base command.
C7_Immutable ==
    /\ launcher.some => (base0.some /\ base_command(launcher.v) = base0.v)
    /\ op \in CallOps => ret = FreshReturn(base0.v, op, arg)

\* C7 witness: a second call on the same launcher
C7_Witness ==
    /\ op \in CallOps
    /\ calls >= 2
    /\ base_command(launcher.v) = base0.v

\* how the claim renders a port range
Range(r) ==
    IF r.start = r.end THEN Decimal(r.start)
    ELSE Decimal(r.start) \o "-" \o Decimal(r.end)

\* C8: PublishPorts::arg gives "ip:host:container" with ip and host,
\* "ip::container" with ip only, "host:container" with host only and
\* "container" with neither, a range being "n" when start equals end and
\* "start-end" otherwise.
C8_PublishFormats ==
    op = "publish_arg" =>
        /\ (arg.ip.some /\ arg.host.some) =>
              ret = arg.ip.v \o ":" \o Range(arg.host.v) \o ":" \o Range(arg.container)
        /\ (arg.ip.some /\ ~arg.host.some) =>
              ret = arg.ip.v \o "::" \o Range(arg.container)
        /\ (~arg.ip.some /\ arg.host.some) =>
              ret = Range(arg.host.v) \o ":" \o Range(arg.container)
        /\ (~arg.ip.some /\ ~arg.host.some) =>
              ret = Range(arg.container)

\* C8 witness: an ip without a host range, publishing a range of ports
C8_Witness ==
    /\ op = "publish_arg"
    /\ arg = [container |-> PortRange(8000, 8010), host |-> None, ip |-> Some("1.2.3.4")]
    /\ ret = "1.2.3.4::8000-8010"

RECURSIVE CommaEach(_)
\* each option preceded by a comma, in order
CommaEach(options) ==
    IF options = <<>> THEN "" ELSE "," \o Head(options) \o CommaEach(Tail(options))

\* C9: Volume::arg gives "<src>:<dst>:ro" when read_write is false and
\* "<src>:<dst>:rw" when it is true, followed by each option in input order,
\* each preceded by a comma; an empty options list adds nothing.
C9_VolumeFormat ==
    op = "volume_arg" =>
        /\ ret = arg.src \o ":" \o arg.dst \o (IF arg.read_write THEN ":rw" ELSE ":ro")
                 \o CommaEach(arg.options)
        /\ arg.options = <<>> =>
              ret = arg.src \o ":" \o arg.dst \o (IF arg.read_write THEN ":rw" ELSE ":ro")

\* C9 witness: the read-only volume of tests/docker.rs test_run, with a
\* repeated option
C9_Witness ==
    /\ op = "volume_arg"
    /\ arg = [src |-> "/mySrc", dst |-> "/myDst", read_write |-> FALSE,
              options |-> <<"z", "z">>]
    /\ ret = "/mySrc:/myDst:ro,z,z"

\* the operations that build a PortRange
PortRangeOps == {"port_range", "port_range_from", "port_range_default"}

\* C11 as stated: every PortRange built by the tuple constructor, by the
\* conversion from a u16 or by Default has start <= end.
C11_Original == op \in PortRangeOps => ret.start <= ret.end

\* C11, amended: the conversion from a u16 gives start = end = the port and
\* Default gives start = end = 0, so both have start <= end; the tuple
\* constructor keeps the bounds of the range it is given, so its value has
\* start <= end exactly when that range has.
C11_PortRangeOrder ==
    /\ op = "port_range_from" => (ret.start = arg /\ ret.end = arg /\ ret.start <= ret.end)
    /\ op = "port_range_default" => (ret.start = 0 /\ ret.end = 0 /\ ret.start <= ret.end)
    /\ op = "port_range" =>
          /\ ret.start = arg[1]
          /\ ret.end = arg[2]
          /\ (ret.start <= ret.end) <=> (arg[1] <= arg[2])

\* C11 witness: PortRange::from(123) is PortRange(123..=123), as in the
\* documentation of PortRange
C11_Witness ==
    /\ op = "port_range_from"
    /\ arg = 123
    /\ ret = PortRange(123, 123)

\* how the claim renders a NameOrId: the name itself, or the decimal number
NameOrNumber(x) == IF x.tag = "Name" THEN x.name ELSE Decimal(x.id)

\* C12: UserAndGroup::arg gives the bare user token when group is absent and
\* "<user>:<group>" when it is present, a Name being rendered as the name
\* itself and an Id as its decimal number.
C12_UserFormat ==
    op = "user_arg" =>
        /\ ~arg.group.some => ret = NameOrNumber(arg.user)
        /\ arg.group.some =>
              ret = NameOrNumber(arg.user) \o ":" \o NameOrNumber(arg.group.v)

\* C12 witness: the mixed form of tests/docker.rs test_user, a numeric user
\* with a named group
C12_Witness ==
    /\ op = "user_arg"
    /\ arg = [user |-> Id(1000), group |-> Some(Name("myGroup"))]
    /\ ret = "1000:myGroup"

=============================================================================
